---- MODULE Spec2Model ----
(***************************************************************************)
(* A model of the face-blur repository:                                    *)
(*   - the identity matcher (face_processing.is_face_whitelisted and the   *)
(*     inner loop of PyTorchFaceProcessor.detect_and_blur_faces),          *)
(*   - the frame transformer (detect_and_blur_faces and the per-frame body *)
(*     of face_processing.process_video),                                  *)
(*   - the two video loops (face_processing.process_video, synchronous,    *)
(*     and FaceBlurApp.process_video, a worker thread driven by the Tk     *)
(*     main thread's button callbacks).                                    *)
(*                                                                         *)
(* Embeddings are vectors of two coordinates given in tenths; thresholds   *)
(* are given in tenths too.  The code compares the Euclidean norm of the   *)
(* difference with the threshold; the model compares the squared norm with *)
(* the squared threshold, which is the same comparison for a threshold > 0 *)
(* and is false for a threshold <= 0 (a norm is never negative).           *)
(***************************************************************************)
EXTENDS Integers, Sequences, FiniteSets, TLC

\* ------------------------------------------------------------------ bounds
MaxCoord == 1
MaxStore == 2
MaxThr == 1
FrameWidth == 2
FrameHeight == 2
MaxRegions == 2
MaxFrames == 3
MaxImages == 1
MaxStarts == 2
DestRoom == 1
MaxBuild == 3

\* ------------------------------------------------------- program constants
\* is_face_whitelisted(..., threshold=0.5), in tenths
deepface_threshold == 5
\* detect_and_blur_faces(..., embedding_threshold=0.8), in tenths
embedding_threshold == 8
\* detect_and_blur_faces(..., detection_confidence=0.9), in hundredths
detection_confidence == 90

\* ------------------------------------------------------------------- state
\* mt: the matcher's run; ft: the frame transformer's run
VARIABLES mt, ft, wb

\* env:  what is on disk: the source video (which frames decode, the frame
\*       count its header reports, whether it opens), the whitelist directory,
\*       whether DeepFace imported, and which program runs ("cli": a caller of
\*       face_processing.process_video, "gui": FaceBlurApp)
\* cli:  the locals of face_processing.process_video
\* app:  the fields of FaceBlurApp; processor: those of its PyTorchFaceProcessor
\* caps: the cv2.VideoCapture made by each worker thread; outs: its VideoWriter
\* thr:  each worker thread's position in FaceBlurApp.process_video
\* hist: history kept for the properties (not program state)
VARIABLES env, cli, app, processor, caps, outs, thr, hist

ctl == <<env, cli, app, processor, caps, outs, thr, hist>>
vars == <<mt, ft, wb, env, cli, app, processor, caps, outs, thr, hist>>

\* ------------------------------------------------------------ embeddings
\* Coordinates lie on a grid of 0.6, so that distances fall below, on and
\* above the thresholds used.
Coords == {6 * k : k \in 0..MaxCoord}
Embeddings == Coords \X Coords

RECURSIVE SeqsUpTo(_, _)
SeqsUpTo(S, n) ==
    IF n = 0 THEN {<<>>}
    ELSE LET shorter == SeqsUpTo(S, n - 1)
         IN  shorter \cup {Append(s, x) : s \in {t \in shorter : Len(t) = n - 1}, x \in S}

Stores == SeqsUpTo(Embeddings, MaxStore)
Thresholds == {deepface_threshold, embedding_threshold, -6} \cup {6 * k : k \in 0..MaxThr}

\* The square of np.linalg.norm(a - b) / (a - b).norm()
SqNorm(a, b) == (a[1] - b[1]) * (a[1] - b[1]) + (a[2] - b[2]) * (a[2] - b[2])

\* ------------------------------------------------ the identity matcher
\* face_processing.py 81-85: for _, emb in whitelist_embeddings:
\*     if distance < threshold: return True
\* return False
RECURSIVE scan_from(_, _, _, _)
scan_from(i, face_embedding, whitelist_embeddings, threshold) ==
    IF i > Len(whitelist_embeddings) THEN FALSE
    ELSE IF threshold > 0
            /\ SqNorm(face_embedding, whitelist_embeddings[i]) < threshold * threshold
         THEN TRUE
         ELSE scan_from(i + 1, face_embedding, whitelist_embeddings, threshold)

\* mutants of the scan: <= for <, a scan that decides on the first entry,
\* and > for <
RECURSIVE scan_from_le(_, _, _, _)
scan_from_le(i, face_embedding, whitelist_embeddings, threshold) ==
    IF i > Len(whitelist_embeddings) THEN FALSE
    ELSE IF threshold >= 0
            /\ SqNorm(face_embedding, whitelist_embeddings[i]) <= threshold * threshold
         THEN TRUE
         ELSE scan_from_le(i + 1, face_embedding, whitelist_embeddings, threshold)

is_face_whitelisted_le(face_embedding, whitelist_embeddings, threshold) ==
    scan_from_le(1, face_embedding, whitelist_embeddings, threshold)

is_face_whitelisted_first(face_embedding, whitelist_embeddings, threshold) ==
    /\ Len(whitelist_embeddings) > 0
    /\ threshold > 0
    /\ SqNorm(face_embedding, whitelist_embeddings[1]) < threshold * threshold

is_face_whitelisted_gt(face_embedding, whitelist_embeddings, threshold) ==
    \E i \in 1..Len(whitelist_embeddings) :
        \/ threshold < 0
        \/ SqNorm(face_embedding, whitelist_embeddings[i]) > threshold * threshold

is_face_whitelisted(face_embedding, whitelist_embeddings, threshold) ==
    scan_from(1, face_embedding, whitelist_embeddings, threshold)

\* pytorch_face_processing.py 104-110: is_whitelisted = False;
\* if self.whitelist_embeddings: for ...: if distance < threshold: True, break
is_whitelisted(embedding, whitelist_embeddings, threshold) ==
    IF whitelist_embeddings # <<>>
    THEN scan_from(1, embedding, whitelist_embeddings, threshold)
    ELSE FALSE

\* the sub-models at rest, for the specifications that do not run them
MtIdle == [pc |-> "off"]
FtIdle == [pc |-> "off"]
WbIdle == [pc |-> "off"]
CtlIdle ==
    /\ env = [entry |-> "off"]
    /\ cli = [pc |-> "off"]
    /\ app = [status_text |-> "off"]
    /\ processor = [whitelist_embeddings |-> <<>>]
    /\ caps = <<>>
    /\ outs = <<>>
    /\ thr = <<>>
    /\ hist = <<>>

\* ---------------------------------------- specification of the matcher
\* A probe, a store and two thresholds t1 < t2 are drawn; either matcher is
\* applied with both thresholds.
MatchInit ==
    /\ mt \in [pc : {"start"}, impl : {"none"}, probe : Embeddings, store : Stores,
               t1 : Thresholds, t2 : Thresholds, r1 : {FALSE}, r2 : {FALSE}]
    /\ mt.t1 < mt.t2
    /\ ft = FtIdle
    /\ wb = WbIdle
    /\ CtlIdle

RunDeepFace ==
    /\ mt.pc = "start"
    /\ mt' = [mt EXCEPT !.pc = "done", !.impl = "deepface",
                        !.r1 = is_face_whitelisted(mt.probe, mt.store, mt.t1),
                        !.r2 = is_face_whitelisted(mt.probe, mt.store, mt.t2)]
    /\ UNCHANGED <<ft, wb, ctl>>

RunPyTorch ==
    /\ mt.pc = "start"
    /\ mt' = [mt EXCEPT !.pc = "done", !.impl = "pytorch",
                        !.r1 = is_whitelisted(mt.probe, mt.store, mt.t1),
                        !.r2 = is_whitelisted(mt.probe, mt.store, mt.t2)]
    /\ UNCHANGED <<ft, wb, ctl>>

MatchNext == RunDeepFace \/ RunPyTorch

SpecMatch == MatchInit /\ [][MatchNext]_vars

\* C3: the matcher reports a match iff some entry lies at a distance strictly
\* below the threshold; an entry at exactly the threshold is no match, and an
\* empty store never matches.
C3_MatchIffStrictlyBelow ==
    mt.pc = "done" =>
        /\ mt.r1 = (\E i \in 1..Len(mt.store) :
                        mt.t1 > 0 /\ SqNorm(mt.probe, mt.store[i]) < mt.t1 * mt.t1)
        /\ mt.r2 = (\E i \in 1..Len(mt.store) :
                        mt.t2 > 0 /\ SqNorm(mt.probe, mt.store[i]) < mt.t2 * mt.t2)
        /\ (mt.store = <<>> => ~mt.r1 /\ ~mt.r2)

\* the nearest entry is exactly at the threshold, and the matcher said no
C3_Witness ==
    /\ mt.pc = "done"
    /\ mt.store # <<>>
    /\ mt.t1 > 0
    /\ \E i \in 1..Len(mt.store) : SqNorm(mt.probe, mt.store[i]) = mt.t1 * mt.t1
    /\ \A i \in 1..Len(mt.store) : SqNorm(mt.probe, mt.store[i]) >= mt.t1 * mt.t1
    /\ ~mt.r1

\* The minimum squared distance over all entries of a non-empty store
MinSqDist(p, store) ==
    CHOOSE d \in {SqNorm(p, store[i]) : i \in 1..Len(store)} :
        \A j \in 1..Len(store) : d <= SqNorm(p, store[j])

\* The full scan of spec 4.2: match iff the minimum distance is below the threshold
FullScanMatch(p, store, t) ==
    /\ store # <<>>
    /\ t > 0
    /\ MinSqDist(p, store) < t * t

\* C4: the short-circuiting scan and the full minimum-distance scan agree.
C4_ShortCircuitEqualsFullScan ==
    mt.pc = "done" =>
        /\ mt.r1 = FullScanMatch(mt.probe, mt.store, mt.t1)
        /\ mt.r2 = FullScanMatch(mt.probe, mt.store, mt.t2)

\* the scan stopped early: the first entry matches and a later one does not
C4_Witness ==
    /\ mt.pc = "done"
    /\ Len(mt.store) = 2
    /\ mt.t2 > 0
    /\ SqNorm(mt.probe, mt.store[1]) < mt.t2 * mt.t2
    /\ SqNorm(mt.probe, mt.store[2]) >= mt.t2 * mt.t2
    /\ mt.r2

\* C5: the matcher is monotone in the threshold.
C5_MonotoneInThreshold ==
    mt.pc = "done" => (mt.r1 => mt.r2)

\* a probe that matches with the smaller threshold, and so with the larger
C5_Witness ==
    /\ mt.pc = "done"
    /\ mt.t1 > 0
    /\ mt.r1
    /\ mt.r2

\* ------------------------------------------------ the frame transformer
\* A frame is FrameWidth x FrameHeight pixels; the model keeps the set of
\* pixels <<x, y>> that have been replaced by blurred ones.
Pixels == (0..(FrameWidth - 1)) \X (0..(FrameHeight - 1))

\* numpy's normalisation of a slice bound i on an axis of length n: a negative
\* bound counts from the end, and the result is clipped to 0..n
SliceBound(i, n) ==
    IF i < 0 THEN (IF i + n < 0 THEN 0 ELSE i + n)
    ELSE (IF i > n THEN n ELSE i)

\* the indices selected by a[lo:hi] on an axis of length n
SliceIdx(lo, hi, n) == {k \in 0..(n - 1) : SliceBound(lo, n) <= k /\ k < SliceBound(hi, n)}

\* frame[y1:y2, x1:x2] for box = <<x1, y1, x2, y2>>
FrameSlice(box) ==
    {px \in Pixels : /\ px[1] \in SliceIdx(box[1], box[3], FrameWidth)
                     /\ px[2] \in SliceIdx(box[2], box[4], FrameHeight)}

\* The boxes a detector returns: inside the frame, extending past the right and
\* bottom edge, starting left of the frame, wholly right of the frame, and
\* wholly left of it.
Boxes ==
    { <<0, 0, 1, 1>>,
      <<1, 1, FrameWidth + 1, FrameHeight + 1>>,
      <<-1, 0, 1, 1>>,
      <<FrameWidth, 0, FrameWidth + 1, 1>>,
      <<-2, 0, -1, 1>> }

\* detection probabilities, in hundredths: just below and on the threshold
Probs == {detection_confidence - 1, detection_confidence}

\* What the embedding provider yields for a region: no face tensor ("none",
\* mtcnn.extract returning None), an exception ("raise"), or an embedding
\* ("ok") near to / far from the whitelist entry <<0, 0>>.
FaceEmbeddings == {<<0, 0>>, <<6, 6>>}
EmbOutcomes ==
    {[status |-> "none", vec |-> <<0, 0>>], [status |-> "raise", vec |-> <<0, 0>>]}
    \cup [status : {"ok"}, vec : FaceEmbeddings]

Regions == [box : Boxes, prob : Probs, emb : EmbOutcomes]

\* What the detector yields for a frame: an exception ("raise"), no boxes
\* ("none": boxes is None), or one to MaxRegions regions
Detections ==
    {[status |-> "raise", boxes |-> <<>>], [status |-> "none", boxes |-> <<>>]}
    \cup [status : {"boxes"}, boxes : SeqsUpTo(Regions, MaxRegions) \ {<<>>}]

FrameWhitelists == {<<>>, << <<0, 0>> >>, << <<6, 0>>, <<0, 0>> >>}

\* pytorch_face_processing.py 90-121, from region i on.  st is
\* [blurred, num_blurred]; an exception leaves the loop with what was done.
RECURSIVE blur_regions(_, _, _, _)
blur_regions(i, boxes, whitelist_embeddings, st) ==
    IF i > Len(boxes) THEN st
    ELSE LET r == boxes[i]
         IN  IF r.prob < detection_confidence
             THEN blur_regions(i + 1, boxes, whitelist_embeddings, st)
             ELSE IF r.emb.status = "none"
             THEN blur_regions(i + 1, boxes, whitelist_embeddings, st)
             ELSE IF r.emb.status = "raise"
             THEN st
             ELSE IF is_whitelisted(r.emb.vec, whitelist_embeddings, embedding_threshold)
             THEN blur_regions(i + 1, boxes, whitelist_embeddings, st)
             ELSE LET face == FrameSlice(r.box)
                      st2 == [blurred |-> st.blurred \cup face,
                              num_blurred |-> st.num_blurred + 1]
                  IN  blur_regions(i + 1, boxes, whitelist_embeddings, st2)

\* a transformer that counts only the regions passing the confidence filter
detect_and_blur_faces_confident(det, whitelist_embeddings) ==
    IF det.status # "boxes"
    THEN [blurred |-> {}, num_detected |-> 0, num_blurred |-> 0]
    ELSE LET st == blur_regions(1, det.boxes, whitelist_embeddings,
                                [blurred |-> {}, num_blurred |-> 0])
         IN  [blurred |-> st.blurred,
              num_detected |-> Cardinality({i \in 1..Len(det.boxes) :
                                  det.boxes[i].prob >= detection_confidence}),
              num_blurred |-> st.num_blurred]

\* PyTorchFaceProcessor.detect_and_blur_faces: <<blurred pixels, num_detected,
\* num_blurred>> for a frame with nothing blurred yet
detect_and_blur_faces(det, whitelist_embeddings) ==
    IF det.status # "boxes"
    THEN [blurred |-> {}, num_detected |-> 0, num_blurred |-> 0]
    ELSE LET st == blur_regions(1, det.boxes, whitelist_embeddings,
                                [blurred |-> {}, num_blurred |-> 0])
         IN  [blurred |-> st.blurred, num_detected |-> Len(det.boxes),
              num_blurred |-> st.num_blurred]

\* face_processing.py 123-130, from face i on: no confidence filter; a failed
\* embedding makes is_face_whitelisted return False; cv2.GaussianBlur raises on
\* an empty crop, which ends the frame's loop (except at 131).
RECURSIVE blur_faces(_, _, _, _)
blur_faces(i, faces, whitelist_embeddings, blurred) ==
    IF i > Len(faces) THEN blurred
    ELSE LET r == faces[i]
             face_img == FrameSlice(r.box)
             whitelisted ==
                 /\ face_img # {}
                 /\ r.emb.status = "ok"
                 /\ is_face_whitelisted(r.emb.vec, whitelist_embeddings, deepface_threshold)
         IN  IF whitelisted
             THEN blur_faces(i + 1, faces, whitelist_embeddings, blurred)
             ELSE IF face_img = {}
             THEN blurred
             ELSE blur_faces(i + 1, faces, whitelist_embeddings, blurred \cup face_img)

\* face_processing.py 121-133: the per-frame body of process_video
process_frame(det, whitelist_embeddings) ==
    IF det.status # "boxes" THEN {}
    ELSE blur_faces(1, det.boxes, whitelist_embeddings, {})

\* -------------------------------- specification of the frame transformer
\* A detector result and a whitelist are drawn; one of the two transformers is
\* applied to a frame, which is then the frame handed to the writer.
FrameInit ==
    /\ mt = MtIdle
    /\ wb = WbIdle
    /\ CtlIdle
    /\ ft \in [pc : {"start"}, impl : {"pytorch", "deepface"}, det : Detections,
               whitelist : FrameWhitelists, blurred : {{}},
               num_detected : {0}, num_blurred : {0}]
    \* DeepFace.represent has no "no face tensor" outcome, and process_video
    \* does not reach the loop with an empty whitelist (line 97)
    /\ ft.impl = "deepface" =>
          /\ ft.whitelist # <<>>
          /\ \A i \in 1..Len(ft.det.boxes) : ft.det.boxes[i].emb.status # "none"

\* a transformer without the try/except of lines 80 and 123: the detector's
\* exception leaves detect_and_blur_faces
TransformPyTorch_nocatch ==
    /\ ft.pc = "start"
    /\ ft.impl = "pytorch"
    /\ IF ft.det.status = "raise"
       THEN ft' = [ft EXCEPT !.pc = "raised"]
       ELSE LET res == detect_and_blur_faces(ft.det, ft.whitelist)
            IN  ft' = [ft EXCEPT !.pc = "done", !.blurred = res.blurred,
                                 !.num_detected = res.num_detected,
                                 !.num_blurred = res.num_blurred]
    /\ UNCHANGED <<mt, wb, ctl>>

TransformPyTorch ==
    /\ ft.pc = "start"
    /\ ft.impl = "pytorch"
    /\ LET res == detect_and_blur_faces(ft.det, ft.whitelist)
       IN  ft' = [ft EXCEPT !.pc = "done", !.blurred = res.blurred,
                            !.num_detected = res.num_detected,
                            !.num_blurred = res.num_blurred]
    /\ UNCHANGED <<mt, wb, ctl>>

TransformDeepFace ==
    /\ ft.pc = "start"
    /\ ft.impl = "deepface"
    /\ ft' = [ft EXCEPT !.pc = "done",
                        !.blurred = process_frame(ft.det, ft.whitelist)]
    /\ UNCHANGED <<mt, wb, ctl>>

FrameNext == TransformPyTorch \/ TransformDeepFace

SpecFrame == FrameInit /\ [][FrameNext]_vars

\* the pixels of the frame that a box covers
BoxInFrame(box) ==
    {px \in Pixels : /\ box[1] <= px[1] /\ px[1] < box[3]
                     /\ box[2] <= px[2] /\ px[2] < box[4]}

\* a region the detector is confident of, whose embedding is at the threshold
\* distance or farther from every whitelist entry
Unrecognized(r, whitelist, threshold) ==
    /\ r.prob >= detection_confidence
    /\ r.emb.status = "ok"
    /\ \A i \in 1..Len(whitelist) : SqNorm(r.emb.vec, whitelist[i]) >= threshold * threshold

\* C1: in the frame handed to the writer, every confidently detected region
\* whose embedding matches no whitelist entry is blurred, whatever the detector
\* returned, whichever region failed and wherever the box lies.
C1_UnrecognizedFacesBlurred ==
    ft.pc = "done" =>
        \A i \in 1..Len(ft.det.boxes) :
            Unrecognized(ft.det.boxes[i], ft.whitelist,
                         IF ft.impl = "pytorch" THEN embedding_threshold
                         ELSE deepface_threshold)
                => BoxInFrame(ft.det.boxes[i].box) \subseteq ft.blurred

\* the union of the pixels that the frame's boxes cover
RECURSIVE CoveredUpTo(_, _)
CoveredUpTo(n, boxes) ==
    IF n = 0 THEN {} ELSE CoveredUpTo(n - 1, boxes) \cup BoxInFrame(boxes[n].box)

\* C14: the pixels replaced in a frame all lie in the intersection of a
\* detected box with the frame, as they would with coordinates clamped to
\* [0, width] x [0, height].
C14_NoPixelOutsideTheBoxes ==
    ft.pc = "done" => ft.blurred \subseteq CoveredUpTo(Len(ft.det.boxes), ft.det.boxes)

\* C15: when the detector raises for a frame, the transformer returns the
\* frame with no pixel replaced and both counts 0, so that the loop goes on to
\* write it and to read the next frame.
C15_DetectorFailureLeavesFrame ==
    (ft.pc # "start" /\ ft.det.status = "raise") =>
        /\ ft.pc = "done"
        /\ ft.blurred = {}
        /\ ft.num_detected = 0
        /\ ft.num_blurred = 0

\* the detector raised, with a whitelist in place, and the transformer returned
C15_Witness ==
    /\ ft.pc = "done"
    /\ ft.det.status = "raise"
    /\ ft.whitelist # <<>>

\* every crop of the frame is the box's intersection with the frame, not empty
CropsAsClamped(boxes) ==
    \A k \in 1..Len(boxes) :
        FrameSlice(boxes[k].box) = BoxInFrame(boxes[k].box) /\ FrameSlice(boxes[k].box) # {}

\* the embedding computation of region r fails, if it is attempted
EmbeddingFails(r) ==
    /\ r.emb.status \in {"raise", "none"}
    /\ ft.impl = "pytorch" => r.prob >= detection_confidence

\* C16: when the embedding of one region of a frame fails, a later region of
\* the frame that is an unrecognized face is blurred all the same.
C16_LaterRegionsStillProcessed ==
    (ft.pc = "done" /\ CropsAsClamped(ft.det.boxes)) =>
        \A i \in 1..Len(ft.det.boxes) : \A j \in (i + 1)..Len(ft.det.boxes) :
            ( /\ EmbeddingFails(ft.det.boxes[i])
              /\ Unrecognized(ft.det.boxes[j], ft.whitelist,
                              IF ft.impl = "pytorch" THEN embedding_threshold
                              ELSE deepface_threshold) )
                => BoxInFrame(ft.det.boxes[j].box) \subseteq ft.blurred

\* C17: a region whose embedding computation fails is blurred in the frame
\* handed to the writer.
C17_FailedEmbeddingBlurred ==
    (ft.pc = "done" /\ CropsAsClamped(ft.det.boxes)) =>
        \A i \in 1..Len(ft.det.boxes) :
            EmbeddingFails(ft.det.boxes[i])
                => BoxInFrame(ft.det.boxes[i].box) \subseteq ft.blurred

\* C23: the detected count the PyTorch transformer returns is the number of
\* regions the detector returned for the frame, whatever the confidence filter,
\* the embedding or the blur did with each.
C23_DetectedCountsEveryRegion ==
    (ft.pc = "done" /\ ft.impl = "pytorch") => ft.num_detected = Len(ft.det.boxes)

\* two regions, one below the confidence threshold and one whose embedding
\* raises, are both counted
C23_Witness ==
    /\ ft.pc = "done"
    /\ ft.impl = "pytorch"
    /\ ft.num_detected = 2
    /\ \E i, j \in 1..Len(ft.det.boxes) :
          /\ ft.det.boxes[i].prob < detection_confidence
          /\ ft.det.boxes[j].prob >= detection_confidence
          /\ ft.det.boxes[j].emb.status = "raise"

\* region i of the frame is reached by the PyTorch loop (no exception before
\* it) and found to be a face matching no whitelist entry
FoundUnmatched(i) ==
    /\ \A k \in 1..(i - 1) :
          ~(ft.det.boxes[k].prob >= detection_confidence
              /\ ft.det.boxes[k].emb.status = "raise")
    /\ ft.det.boxes[i].prob >= detection_confidence
    /\ ft.det.boxes[i].emb.status = "ok"
    /\ ~is_whitelisted(ft.det.boxes[i].emb.vec, ft.whitelist, embedding_threshold)

\* C24: the blurred count the PyTorch transformer returns is the number of
\* regions whose pixels were replaced, and it is at most the detected count.
C24_BlurredCountsReplacedRegions ==
    (ft.pc = "done" /\ ft.impl = "pytorch") =>
        /\ ft.num_blurred =
              Cardinality({i \in 1..Len(ft.det.boxes) :
                              FoundUnmatched(i) /\ FrameSlice(ft.det.boxes[i].box) # {}})
        /\ ft.num_blurred <= ft.num_detected

\* ---------------------------------------------------- the video loops
Workers == 1..MaxStarts

\* the source videos: for each frame, whether cap.read() decodes it
Sources == SeqsUpTo(BOOLEAN, MaxFrames)

\* the files of the whitelist directory / the images picked in the dialog:
\* "face" yields an embedding, "noface" has no detectable face, "bad" makes the
\* provider raise, "other" has no image extension
ImageKinds == {"face", "noface", "bad", "other"}

\* the number of frames of the source that decode
RECURSIVE Decodable(_)
Decodable(frames) ==
    IF frames = <<>> THEN 0
    ELSE (IF Head(frames) THEN 1 ELSE 0) + Decodable(Tail(frames))

\* cv2.VideoCapture.read() on a capture c = [opened, pos, released]: the next
\* frame's number if it decodes, 0 if not (ret False)
ReadFrame(c) ==
    IF c.opened /\ c.pos < Len(env.frames) /\ env.frames[c.pos + 1]
    THEN c.pos + 1 ELSE 0

\* the capture after read(): the position advances past the frame tried
AfterRead(c) ==
    IF c.opened /\ c.pos < Len(env.frames) THEN [c EXCEPT !.pos = c.pos + 1] ELSE c

NoCap == [opened |-> FALSE, pos |-> 0, released |-> 0]
NoOut == [created |-> FALSE, frames |-> <<>>, released |-> 0]

\* the destinations: "ok" takes every frame; "uncreatable" cannot be created,
\* the VideoWriter is constructed but not opened; "fills" takes DestRoom
\* frames and is unwritable from then on
DestKinds == {"ok", "uncreatable", "fills"}

\* out.write(frame): cv2.VideoWriter.write returns nothing and does nothing
\* on a writer that is not open or whose destination takes no more
WriteFrame(out, frame) ==
    IF env.dest = "ok" \/ (env.dest = "fills" /\ Len(out.frames) < DestRoom)
    THEN [out EXCEPT !.frames = Append(@, frame)]
    ELSE out

\* an image in which the provider finds a face and embeds it: "face" is the
\* whitelisted person, "face2" another one
UsableImage(img) == img \in {"face", "face2"}
ImageEmbedding(img) == IF img = "face" THEN <<0, 0>> ELSE <<6, 0>>

\* a build that gives up at the first image the provider fails on
RECURSIVE get_face_embeddings_abort(_)
get_face_embeddings_abort(dir) ==
    IF dir = <<>> THEN <<>>
    ELSE IF UsableImage(Head(dir))
         THEN <<ImageEmbedding(Head(dir))>> \o get_face_embeddings_abort(Tail(dir))
         ELSE IF Head(dir) = "other"
         THEN get_face_embeddings_abort(Tail(dir))
         ELSE <<>>

\* face_processing.py 28-62: one (file, embedding) per image file that
\* DeepFace.represent accepts ("noface" raises there: enforce_detection)
RECURSIVE get_face_embeddings(_)
get_face_embeddings(dir) ==
    IF dir = <<>> THEN <<>>
    ELSE IF UsableImage(Head(dir))
         THEN <<ImageEmbedding(Head(dir))>> \o get_face_embeddings(Tail(dir))
         ELSE get_face_embeddings(Tail(dir))

\* pytorch_face_processing.py 42-60: one embedding per image in which a face
\* is detected and embedded
RECURSIVE update_whitelist(_)
update_whitelist(whitelist_images) ==
    IF whitelist_images = <<>> THEN <<>>
    ELSE IF UsableImage(Head(whitelist_images))
         THEN <<ImageEmbedding(Head(whitelist_images))>>
                  \o update_whitelist(Tail(whitelist_images))
         ELSE update_whitelist(Tail(whitelist_images))

\* ------------------------------ specification of the whitelist builders
\* A list of image files is drawn and one of the two builders is applied.
BuildImages == ImageKinds \cup {"face2"}

BuildInit ==
    /\ mt = MtIdle
    /\ ft = FtIdle
    /\ CtlIdle
    /\ wb \in [pc : {"start"}, impl : {"deepface", "pytorch"},
               images : SeqsUpTo(BuildImages, MaxBuild), result : {<<>>}]

BuildDeepFace ==
    /\ wb.pc = "start"
    /\ wb.impl = "deepface"
    /\ wb' = [wb EXCEPT !.pc = "done", !.result = get_face_embeddings(wb.images)]
    /\ UNCHANGED <<mt, ft, ctl>>

BuildPyTorch ==
    /\ wb.pc = "start"
    /\ wb.impl = "pytorch"
    /\ wb' = [wb EXCEPT !.pc = "done", !.result = update_whitelist(wb.images)]
    /\ UNCHANGED <<mt, ft, ctl>>

BuildNext == BuildDeepFace \/ BuildPyTorch

SpecBuild == BuildInit /\ [][BuildNext]_vars

\* the embeddings of a list of usable images, one per image
EmbeddingsOf(imgs) == [i \in 1..Len(imgs) |-> ImageEmbedding(imgs[i])]

\* C22: the whitelist built from a list of images holds the embedding of every
\* image that yields one, in input order, whatever the other images are; it is
\* empty exactly when no image yields an embedding.
C22_BuildSkipsBadImages ==
    wb.pc = "done" =>
        /\ wb.result = EmbeddingsOf(SelectSeq(wb.images, UsableImage))
        /\ (wb.result = <<>>) = (\A i \in 1..Len(wb.images) : ~UsableImage(wb.images[i]))

\* a usable image, then one the provider fails on, then another usable one:
\* both usable ones are in the result, in that order
C22_Witness ==
    /\ wb.pc = "done"
    /\ Len(wb.images) = 3
    /\ wb.images[1] = "face2"
    /\ wb.images[2] \in {"bad", "noface"}
    /\ wb.images[3] = "face"
    /\ wb.result = << <<6, 0>>, <<0, 0>> >>

\* ---------------- face_processing.process_video (called synchronously)
\* lines 89-115: the checks and the opening of both streams
CliStart ==
    /\ env.entry = "cli"
    /\ cli.pc = "idle"
    /\ LET wl == IF env.deepface_available
                 THEN get_face_embeddings(env.whitelist_dir) ELSE <<>>
       IN  IF ~env.deepface_available \/ wl = <<>>
           THEN cli' = [cli EXCEPT !.pc = "false", !.whitelist_embeddings = wl]
           ELSE IF ~env.openable
           THEN cli' = [cli EXCEPT !.pc = "false", !.whitelist_embeddings = wl]
           ELSE cli' = [cli EXCEPT !.pc = "loop", !.whitelist_embeddings = wl,
                                   !.frame_count = env.frame_count,
                                   !.frame_idx = 0,
                                   !.cap = [opened |-> TRUE, pos |-> 0, released |-> 0],
                                   !.out = [created |-> TRUE, frames |-> <<>>,
                                            released |-> 0]]
    /\ UNCHANGED <<mt, ft, wb, env, app, processor, caps, outs, thr, hist>>

\* lines 117-137: one iteration of `for frame_idx in range(frame_count)`.
\* fault: cap.read() or out.write() raising; an exception of the detection
\* and blurring is caught at 131 and the frame is written all the same.
CliIteration ==
    /\ cli.pc = "loop"
    /\ cli.frame_idx < cli.frame_count
    /\ \E fault \in {"none", "read", "write"} :
        IF fault = "read"
        THEN cli' = [cli EXCEPT !.pc = "raised"]
        ELSE IF ReadFrame(cli.cap) = 0
        THEN cli' = [cli EXCEPT !.pc = "break", !.cap = AfterRead(cli.cap)]
        ELSE IF fault = "write"
        THEN cli' = [cli EXCEPT !.pc = "raised", !.cap = AfterRead(cli.cap)]
        ELSE cli' = [cli EXCEPT !.cap = AfterRead(cli.cap),
                                !.out = WriteFrame(@, ReadFrame(cli.cap)),
                                !.frame_idx = @ + 1]
    /\ UNCHANGED <<mt, ft, wb, env, app, processor, caps, outs, thr, hist>>

\* lines 139-143: after the loop (range exhausted, or break at 120)
CliFinish ==
    /\ \/ cli.pc = "loop" /\ cli.frame_idx >= cli.frame_count
       \/ cli.pc = "break"
    /\ cli' = [cli EXCEPT !.pc = "true",
                          !.cap = [@ EXCEPT !.opened = FALSE, !.released = @ + 1],
                          !.out.released = @ + 1]
    /\ UNCHANGED <<mt, ft, wb, env, app, processor, caps, outs, thr, hist>>

\* ------------------------------ FaceBlurApp: the Tk main thread's callbacks
\* The workers that are inside process_video (started and not yet ended)
Alive(w) == thr[w].pc \notin {"idle", "done", "dead"}

\* History: a call of stop_processing raises the cancellation signal for every
\* other worker still before or inside its loop: the number of frames it has
\* written is noted, and whether it is past the flag check of an iteration
\* (a frame in flight).
Signalled(caller) ==
    [w \in Workers |->
        IF w # caller /\ thr[w].pc \in {"open", "check", "body"}
        THEN [hist[w] EXCEPT !.signalled = TRUE,
                             !.stopAt = Len(outs[w].frames),
                             !.inflight = (thr[w].pc = "body")]
        ELSE hist[w]]

\* improved_face_blur_app.py 172-179
select_video ==
    /\ env.entry = "gui"
    /\ app' = [app EXCEPT !.video_source = TRUE]
    /\ UNCHANGED <<mt, ft, wb, env, cli, processor, caps, outs, thr, hist>>

\* improved_face_blur_app.py 190-198, for one image picked in the dialog
add_whitelist_images ==
    /\ env.entry = "gui"
    /\ Len(app.whitelist_paths) < MaxImages
    /\ \E img \in ImageKinds \ {"other"} :
        LET paths == Append(app.whitelist_paths, img)
        IN  /\ app' = [app EXCEPT !.whitelist_paths = paths]
            /\ processor' = [processor EXCEPT
                                !.whitelist_embeddings = update_whitelist(paths)]
    /\ UNCHANGED <<mt, ft, wb, env, cli, caps, outs, thr, hist>>

\* improved_face_blur_app.py 161-170 with setup_processor 70-84 and
\* PyTorchFaceProcessor.__init__ 32-33: a new processor, its whitelist empty
on_processor_change ==
    /\ env.entry = "gui"
    /\ processor' = [whitelist_embeddings |-> <<>>]
    /\ UNCHANGED <<mt, ft, wb, env, cli, app, caps, outs, thr, hist>>

\* improved_face_blur_app.py 200-217; path_given: the save dialog's answer
start_processing ==
    /\ env.entry = "gui"
    /\ app.start_btn = "normal"
    /\ \E path_given \in BOOLEAN :
        IF ~app.video_source \/ ~path_given
        THEN UNCHANGED <<app, thr, hist>>
        ELSE \E w \in Workers :
                /\ thr[w].pc = "idle"
                /\ \A v \in Workers : v < w => thr[v].pc # "idle"
                /\ app' = [app EXCEPT !.is_processing = TRUE, !.is_paused = FALSE,
                                      !.start_btn = "disabled",
                                      !.pause_btn = "normal",
                                      !.stop_btn = "normal"]
                /\ thr' = [thr EXCEPT ![w].pc = "open"]
                /\ hist' = [v \in Workers |->
                              IF v = w
                              THEN [hist[v] EXCEPT
                                      !.emptyAtStart =
                                          (processor.whitelist_embeddings = <<>>)]
                              ELSE [hist[v] EXCEPT !.signalled = FALSE]]
    /\ UNCHANGED <<mt, ft, wb, env, cli, processor, caps, outs>>

\* improved_face_blur_app.py 291-295
toggle_pause ==
    /\ env.entry = "gui"
    /\ app.pause_btn = "normal"
    /\ app' = [app EXCEPT !.is_paused = ~app.is_paused]
    /\ UNCHANGED <<mt, ft, wb, env, cli, processor, caps, outs, thr, hist>>

\* improved_face_blur_app.py 297-309, the Stop button (finished=False)
stop_processing ==
    /\ env.entry = "gui"
    /\ app.stop_btn = "normal"
    /\ app' = [app EXCEPT !.is_processing = FALSE,
                          !.start_btn = "normal",
                          !.pause_btn = "disabled",
                          !.stop_btn = "disabled",
                          !.status_text = "Stopped"]
    /\ hist' = [w \in Workers |->
                  IF Alive(w)
                  THEN [Signalled(0)[w] EXCEPT !.reported = @ \cup {"stopped"}]
                  ELSE hist[w]]
    /\ UNCHANGED <<mt, ft, wb, env, cli, processor, caps, outs, thr>>

\* ------------------- FaceBlurApp.process_video: one worker thread's steps
\* Each step is the code between two points where the worker reads what the
\* main thread writes (is_processing, is_paused).
\* lines 221-231: open the source, create the writer, reset the counter
WorkerOpen(w) ==
    /\ thr[w].pc = "open"
    /\ caps' = [caps EXCEPT ![w] = [opened |-> env.openable, pos |-> 0,
                                    released |-> 0]]
    /\ outs' = [outs EXCEPT ![w] = [created |-> TRUE, frames |-> <<>>,
                                    released |-> 0]]
    /\ app' = [app EXCEPT !.cap = w, !.total_frames = env.frame_count,
                          !.processed_frames = 0]
    /\ thr' = [thr EXCEPT ![w].pc = "check"]
    /\ UNCHANGED <<mt, ft, wb, env, cli, processor, hist>>

\* a loop condition that forgets the flag
LoopCondition_noflag == caps[app.cap].opened

\* line 233: while self.is_processing and self.cap.isOpened()
LoopCondition == app.is_processing /\ caps[app.cap].opened

\* a loop that does not look at is_paused
WorkerCheck_nopause(w) ==
    /\ thr[w].pc = "check"
    /\ IF ~LoopCondition
       THEN thr' = [thr EXCEPT ![w].pc = "finish",
                               ![w].exit = IF ~app.is_processing
                                           THEN "cancelled" ELSE "closed"]
       ELSE thr' = [thr EXCEPT ![w].pc = "body"]
    /\ UNCHANGED <<mt, ft, wb, env, cli, app, processor, caps, outs, hist>>

\* lines 233-236: the loop condition, then
\* if self.is_paused: time.sleep(0.1); continue
WorkerCheck(w) ==
    /\ thr[w].pc = "check"
    /\ IF ~LoopCondition
       THEN thr' = [thr EXCEPT ![w].pc = "finish",
                               ![w].exit = IF ~app.is_processing
                                           THEN "cancelled" ELSE "closed"]
       ELSE IF app.is_paused
       THEN UNCHANGED thr
       ELSE thr' = [thr EXCEPT ![w].pc = "body"]
    /\ UNCHANGED <<mt, ft, wb, env, cli, app, processor, caps, outs, hist>>

\* lines 238-250: read (break if not ret), transform (which catches its own
\* exceptions), write, count, display_frame, update_status.
\* fault: the call that raises, if any; it ends the thread where it stands.
WorkerBody(w) ==
    /\ thr[w].pc = "body"
    /\ \E fault \in {"none", "read", "write", "display", "status"} :
        IF fault = "read"
        THEN /\ thr' = [thr EXCEPT ![w].pc = "dead", ![w].exit = "fault"]
             /\ UNCHANGED <<caps, outs, app>>
        ELSE /\ caps' = [caps EXCEPT ![app.cap] = AfterRead(caps[app.cap])]
             /\ IF ReadFrame(caps[app.cap]) = 0
                THEN /\ thr' = [thr EXCEPT ![w].pc = "finish", ![w].exit = "eof"]
                     /\ UNCHANGED <<outs, app>>
                ELSE IF fault = "write"
                THEN /\ thr' = [thr EXCEPT ![w].pc = "dead", ![w].exit = "fault"]
                     /\ UNCHANGED <<outs, app>>
                ELSE /\ outs' = [outs EXCEPT ![w] =
                                        WriteFrame(@, ReadFrame(caps[app.cap]))]
                     /\ app' = [app EXCEPT !.processed_frames = @ + 1]
                     /\ IF fault = "none"
                        THEN thr' = [thr EXCEPT ![w].pc = "check"]
                        ELSE thr' = [thr EXCEPT ![w].pc = "dead",
                                                ![w].exit = "fault"]
    /\ UNCHANGED <<mt, ft, wb, env, cli, processor, hist>>

\* lines 252-254: self.cap.release(); out.release();
\* self.stop_processing(finished=True) (lines 297-306)
WorkerFinish(w) ==
    /\ thr[w].pc = "finish"
    /\ caps' = [caps EXCEPT ![app.cap] = [@ EXCEPT !.opened = FALSE,
                                                  !.released = @ + 1]]
    /\ outs' = [outs EXCEPT ![w].released = @ + 1]
    /\ app' = [app EXCEPT !.is_processing = FALSE,
                          !.start_btn = "normal",
                          !.pause_btn = "disabled",
                          !.stop_btn = "disabled",
                          !.status_text = "Finished"]
    /\ hist' = [Signalled(w) EXCEPT ![w].reported = @ \cup {"finished"}]
    /\ thr' = [thr EXCEPT ![w].pc = "done"]
    /\ UNCHANGED <<mt, ft, wb, env, cli, processor>>

\* ------------------------------------- specification of the video loops
NoHist == [emptyAtStart |-> FALSE, reported |-> {},
           signalled |-> FALSE, stopAt |-> 0, inflight |-> FALSE]

\* what a job is given: the entry point used, the source video and what its
\* metadata reports, the destination, and what process_video finds installed
\* and in the whitelist directory
EnvInputs ==
    [entry : {"cli", "gui"}, openable : BOOLEAN, frames : Sources,
     frame_count : 0..MaxFrames, dest : DestKinds, deepface_available : BOOLEAN,
     whitelist_dir : SeqsUpTo(ImageKinds, MaxImages)]

\* Jobs whose destination takes every frame
\* FaceBlurApp.__init__ 38-53 and setup_processor; no process_video call yet
Constructed ==
    /\ cli = [pc |-> "idle", whitelist_embeddings |-> <<>>, frame_count |-> 0,
              frame_idx |-> 0, cap |-> NoCap, out |-> NoOut]
    /\ app = [video_source |-> FALSE, is_processing |-> FALSE, is_paused |-> FALSE,
              processed_frames |-> 0, total_frames |-> 0, whitelist_paths |-> <<>>,
              cap |-> 0, status_text |-> "Ready", start_btn |-> "normal",
              pause_btn |-> "disabled", stop_btn |-> "disabled"]
    /\ processor = [whitelist_embeddings |-> <<>>]
    /\ caps = [w \in Workers |-> NoCap]
    /\ outs = [w \in Workers |-> NoOut]
    /\ thr = [w \in Workers |-> [pc |-> "idle", exit |-> "none"]]
    /\ hist = [w \in Workers |-> NoHist]

Init ==
    /\ mt = MtIdle
    /\ ft = FtIdle
    /\ wb = WbIdle
    /\ env \in EnvInputs
    /\ env.dest = "ok"
    \* a source that does not open has no frames to give
    /\ ~env.openable => env.frames = <<>> /\ env.frame_count = 0
    \* the GUI uses neither DeepFace nor the whitelist directory
    /\ env.entry = "gui" => env.deepface_available /\ env.whitelist_dir = <<>>
    \* process_video's loop is bounded by the reported frame count, which may
    \* differ from the frames there are; FaceBlurApp only displays it
    /\ env.entry = "gui" => env.frame_count = Len(env.frames)
    /\ Constructed

Next ==
    \/ CliStart
    \/ CliIteration
    \/ CliFinish
    \/ select_video
    \/ add_whitelist_images
    \/ on_processor_change
    \/ start_processing
    \/ toggle_pause
    \/ stop_processing
    \/ \E w \in Workers :
        \/ WorkerOpen(w)
        \/ WorkerCheck(w)
        \/ WorkerBody(w)
        \/ WorkerFinish(w)

Spec == Init /\ [][Next]_vars

\* Jobs on a sound source (it opens, every frame decodes, the metadata is
\* right, the whitelist directory holds a face) whose destination fails
DestInit ==
    /\ mt = MtIdle
    /\ ft = FtIdle
    /\ wb = WbIdle
    /\ env \in EnvInputs
    /\ env.dest # "ok"
    /\ env.openable
    /\ \A i \in 1..Len(env.frames) : env.frames[i]
    /\ env.frame_count = Len(env.frames)
    /\ env.deepface_available
    /\ env.whitelist_dir = (IF env.entry = "gui" THEN <<>> ELSE <<"face">>)
    /\ Constructed

SpecDest == DestInit /\ [][Next]_vars

\* ----------------------------------------------------------- properties
\* worker w's job has ended: its thread returned or died of an exception
Ended(w) == thr[w].pc \in {"done", "dead"}

\* worker w opened its source
SourceOpened(w) == env.openable /\ thr[w].pc \notin {"idle", "open"}

\* the numbers of the frames of the source that decode, in order
RECURSIVE GoodFrames(_)
GoodFrames(n) ==
    IF n = 0 THEN <<>>
    ELSE IF env.frames[n] THEN Append(GoodFrames(n - 1), n) ELSE GoodFrames(n - 1)

\* C2: a job started with no usable whitelist entry reads no frame and writes
\* no frame, through process_video and through FaceBlurApp alike.
C2_EmptyWhitelistProcessesNothing ==
    /\ (cli.pc # "idle" /\ cli.whitelist_embeddings = <<>>) =>
          /\ cli.pc = "false"
          /\ cli.cap.pos = 0
          /\ cli.out.frames = <<>>
    /\ \A w \in Workers :
          hist[w].emptyAtStart => caps[w].pos = 0 /\ outs[w].frames = <<>>

\* C6: a job that has ended is reported as exactly its outcome: one that left
\* its loop on the stop is reported stopped and not finished, one that ran to
\* the end of the source is reported finished and not stopped.
C6_ReportedAsExactlyItsOutcome ==
    \A w \in Workers :
        thr[w].pc = "done" =>
            /\ thr[w].exit = "cancelled" => hist[w].reported = {"stopped"}
            /\ thr[w].exit = "eof" => hist[w].reported = {"finished"}

\* C7: once a job has opened its streams, each is released exactly once
\* whichever way the job ends.
C7_StreamsReleasedExactlyOnce ==
    /\ (cli.pc \in {"true", "false", "raised"} /\ cli.out.created) =>
          cli.cap.released = 1 /\ cli.out.released = 1
    /\ \A w \in Workers :
          (Ended(w) /\ SourceOpened(w)) =>
              caps[w].released = 1 /\ outs[w].released = 1

\* C8 as claimed: a worker that leaves its loop on a signal raised after k
\* written frames leaves exactly k frames in the destination.
C8_ExactlyKFrames ==
    \A w \in Workers :
        (hist[w].signalled /\ thr[w].pc = "done" /\ thr[w].exit = "cancelled") =>
            Len(outs[w].frames) = hist[w].stopAt

\* C8 as amended: after the signal, raised with k frames written, and until the
\* flag is set again, the worker writes nothing if the signal came before its
\* flag check and at most the frame in flight if it came after: it starts no
\* new iteration and leaves k or k+1 frames.
C8_AtMostTheFrameInFlight ==
    \A w \in Workers :
        hist[w].signalled =>
            /\ Len(outs[w].frames) >= hist[w].stopAt
            /\ Len(outs[w].frames) <= hist[w].stopAt + (IF hist[w].inflight THEN 1 ELSE 0)
            /\ thr[w].pc = "body" =>
                  hist[w].inflight /\ Len(outs[w].frames) = hist[w].stopAt

\* the signal came after the flag check, with a frame written before it, and
\* the worker left its loop with one frame more
C8_Witness ==
    \E w \in Workers :
        /\ hist[w].signalled
        /\ hist[w].inflight
        /\ hist[w].stopAt >= 1
        /\ thr[w].pc = "done"
        /\ thr[w].exit = "cancelled"
        /\ Len(outs[w].frames) = hist[w].stopAt + 1

\* C9: a job that completes has written as many frames as the source has
\* frames that decode.
C9_WrittenEqualsReadable ==
    /\ cli.pc = "true" => Len(cli.out.frames) = Decodable(env.frames)
    /\ \A w \in Workers :
          (thr[w].pc = "done" /\ thr[w].exit = "eof" /\ hist[w].reported = {"finished"}
              /\ \A v \in Workers \ {w} : thr[v].pc = "idle") =>
              Len(outs[w].frames) = Decodable(env.frames)

\* the source has frames before and after its only frame that does not decode
OneBadFrame ==
    \E i \in 1..(Len(env.frames) - 1) :
        /\ ~env.frames[i]
        /\ \A j \in 1..Len(env.frames) : j # i => env.frames[j]

\* C10: when only one frame, not the last, fails to decode, a job that runs to
\* its end has written all the other frames.
C10_BadFrameSkipped ==
    OneBadFrame =>
        /\ (cli.pc = "true" /\ cli.frame_count = Len(env.frames)) =>
              cli.out.frames = GoodFrames(Len(env.frames))
        /\ (thr[1].pc = "done" /\ thr[1].exit = "eof" /\ hist[1].reported = {"finished"}
              /\ \A v \in Workers \ {1} : thr[v].pc = "idle") =>
              outs[1].frames = GoodFrames(Len(env.frames))

\* the only worker started so far is w
OnlyWorker(w) == \A v \in Workers \ {w} : thr[v].pc = "idle"

\* C11: a job whose source does not open never runs and is never reported as
\* finished or successful; process_video creates no destination for it.
C11_UnopenableSourceFails ==
    ~env.openable =>
        /\ cli.pc \notin {"loop", "break", "true"}
        /\ ~cli.out.created
        /\ \A w \in Workers :
              thr[w].pc # "body" /\ "finished" \notin hist[w].reported

\* C12: a job whose destination cannot be created processes no frame and does
\* not report success.
C12_UncreatableDestinationFails ==
    env.dest = "uncreatable" =>
        /\ cli.pc # "true"
        /\ cli.cap.pos = 0
        /\ \A w \in Workers :
              caps[w].pos = 0 /\ "finished" \notin hist[w].reported

\* C13: once a write to the destination has failed, the job makes no further
\* write attempt and does not end as completed.
C13_UnwritableDestinationFails ==
    env.dest = "fills" =>
        /\ cli.frame_idx > Len(cli.out.frames) =>
              cli.pc # "true" /\ cli.frame_idx = Len(cli.out.frames) + 1
        /\ \A w \in Workers :
              (OnlyWorker(w) /\ app.cap = w
                  /\ app.processed_frames > Len(outs[w].frames)) =>
                  /\ "finished" \notin hist[w].reported
                  /\ app.processed_frames = Len(outs[w].frames) + 1

\* C18 as claimed: while the job is paused, nothing is read from the source of
\* a worker in its loop, nothing is written to its destination and neither is
\* released.
C18_NothingWhilePaused ==
    [][ (app.is_processing /\ app.is_paused) =>
            \A w \in Workers : thr[w].pc \in {"check", "body"} =>
                /\ caps'[w].pos = caps[w].pos
                /\ caps'[w].released = caps[w].released
                /\ outs'[w].frames = outs[w].frames
                /\ outs'[w].released = outs[w].released ]_vars

\* C18 as amended: the pause holds the worker at its per-iteration check. A
\* worker starts an iteration only when the job is not paused; a worker that
\* is at the check of a paused running job stays there with its destination
\* untouched; frames are written only by an iteration already begun; and
\* toggling the pause moves neither the source position nor the destination.
C18_HeldAtTheCheck ==
    [][ \A w \in Workers :
            /\ (thr[w].pc = "check" /\ thr'[w].pc = "body") => ~app.is_paused
            /\ (thr[w].pc = "check" /\ LoopCondition /\ app.is_paused) =>
                  thr'[w].pc = "check" /\ outs'[w] = outs[w]
            /\ outs'[w].frames # outs[w].frames => thr[w].pc = "body"
            /\ (app'.is_paused # app.is_paused /\ app'.is_processing) =>
                  caps' = caps /\ outs' = outs ]_vars

\* a running job is paused with its worker held at the check, a frame written
\* and frames left to read
C18_Witness ==
    \E w \in Workers :
        /\ app.is_processing
        /\ app.is_paused
        /\ app.cap = w
        /\ thr[w].pc = "check"
        /\ caps[w].opened
        /\ Len(outs[w].frames) >= 1
        /\ caps[w].pos < Len(env.frames)

\* C19: while a worker is in its frame loop no step changes the whitelist it
\* matches against.
C19_WhitelistFixedDuringJob ==
    [][ (\E w \in Workers : thr[w].pc \in {"check", "body"} /\ caps[w].opened) =>
            processor' = processor ]_vars

\* C20: at most one worker is inside process_video at any time.
C20_AtMostOneWorker ==
    Cardinality({w \in Workers : Alive(w)}) <= 1

\* the frames 1, 2, ... of the source, each once, in the order read
InReadOrder(frames) == \A i \in 1..Len(frames) : frames[i] = i

\* C21: the processed count grows by one with each frame written and by
\* nothing else, and it never decreases while a worker is in its loop.
C21_ProgressGrowsWithWrittenFrames ==
    [][ /\ cli'.frame_idx - cli.frame_idx = Len(cli'.out.frames) - Len(cli.out.frames)
        /\ (\E w \in Workers : thr[w].pc \in {"check", "body"}) =>
              /\ app'.processed_frames >= app.processed_frames
              /\ \A w \in Workers :
                    Len(outs'[w].frames) = Len(outs[w].frames) + 1 =>
                        app'.processed_frames = app.processed_frames + 1 ]_vars

\* C25: the destination of a job that no stream fault ended holds the frames
\* read from its source, each once and in the order read.
C25_EveryFrameReadIsWritten ==
    /\ cli.pc \in {"loop", "break", "true"} =>
          InReadOrder(cli.out.frames) /\ Len(cli.out.frames) = cli.frame_idx
    /\ \A w \in Workers :
          thr[w].exit # "fault" => InReadOrder(outs[w].frames)

\* C26: the active processor's whitelist is the one built from whitelist_paths.
C26_ProcessorHoldsTheWhitelist ==
    env.entry = "gui" =>
        processor.whitelist_embeddings = update_whitelist(app.whitelist_paths)

\* ------------------------------ the video loops under fair scheduling
\* The worker threads are scheduled by the operating system and a held worker
\* polls every 0.1 s (line 235): a worker that can take a step again and again
\* eventually takes it. The user is under no obligation to press anything.
SpecFair ==
    /\ Init
    /\ [][Next]_vars
    /\ \A w \in Workers :
          /\ SF_vars(WorkerOpen(w))
          /\ SF_vars(WorkerCheck(w))
          /\ SF_vars(WorkerBody(w))
          /\ SF_vars(WorkerFinish(w))

\* the Stop button was pressed on a paused job whose worker w is in its loop
CancelledWhilePaused(w) ==
    /\ thr[w].pc \in {"check", "body"}
    /\ ~app.is_processing
    /\ app.is_paused
    /\ "stopped" \in hist[w].reported

\* C27: a worker whose paused job is cancelled eventually leaves its loop and
\* ends with both its streams released.
C27_CancelWhilePausedTakesEffect ==
    \A w \in Workers :
        CancelledWhilePaused(w) ~>
            (thr[w].pc = "done" /\ caps[w].released >= 1 /\ outs[w].released >= 1)

====
